---- MODULE Spec2Model ----
(***************************************************************************)
(* Model of the questrade-rs client: the session slot of `Questrade`       *)
(* (src/lib.rs), the token exchange of `AuthenticationInfo` (src/auth.rs)  *)
(* and the request pipeline shared by every endpoint method.               *)
(*                                                                         *)
(* Every invocation of an async method is a task that runs from its call   *)
(* to its first `.await` of `send()` in one step (the future's first poll) *)
(* and from the arrival of the response to its return in a second step.    *)
(* The tasks of one client interleave at these suspension points (the      *)
(* client holds a RefCell, so all of them run on one thread): a call can   *)
(* be made while earlier ones are suspended, and answers arrive in any     *)
(* order.                                                                  *)
(*                                                                         *)
(* Strings are sequences of tokens; "/" is a token of its own, so trimming *)
(* and URL composition are computed, not assumed.                          *)
(***************************************************************************)
EXTENDS Integers, Sequences, FiniteSets, TLC

VARIABLES auth_info, borrow, origin, now, pc, call, req, sent, result, ncalls, probe

vars == <<auth_info, borrow, origin, now, pc, call, req, sent, result, ncalls, probe>>

(* auth_info  the session slot (RefCell<Option<AuthenticationInfo>>)        *)
(* borrow     the borrow flag of the RefCell: 0 unborrowed, n > 0 shared by   *)
(*            n readers, -1 borrowed mutably                                *)
(* origin     the token answer, URL and instant of the exchange that last   *)
(*            replaced the slot; NoExchange until then (history variable)   *)
(* now        the monotonic clock read by Instant::now()                    *)
(* pc         per task: "idle" (not called), "sent" (suspended in send()),  *)
(*            "done" (returned)                                             *)
(* call       per task: the method and arguments of the running call        *)
(* req        per task: the request in flight                               *)
(* sent       per task: requests this invocation has put on the wire        *)
(* result     per task: what the call returned to its caller                *)
(* ncalls     calls made so far                                             *)
(* probe      one application of a pure function of the crate to one input  *)
(*            (used by SpecPure only; NoProbe in Spec)                      *)

(* ------------------------------ bounds --------------------------------- *)

MaxCalls == 2
MaxTime == 1
(* Longest orders array of an answer; largest small number in a payload. *)
MaxOrders == 2
MaxNum == 2

(* One task per invocation, numbered in the order in which the calls are made. *)
Tasks == 1..MaxCalls

(* ----------------------------- constants ------------------------------- *)

API_VERSION == <<"v1">>

PracticeUrl == <<"https:", "/", "/", "practicelogin.questrade.com", "/", "oauth2", "/", "token">>
LiveUrl == <<"https:", "/", "/", "login.questrade.com", "/", "oauth2", "/", "token">>

UNAUTHORIZED == 401

(* ------------------------------ values --------------------------------- *)

None == [tag |-> "None"]
NoReq == [tag |-> "NoReq"]
NoCall == [op |-> "none"]
NoResult == [tag |-> "NoResult", kind |-> "none", status |-> 0]

Methods ==
  { "accounts", "account_activity", "account_orders", "account_order",
    "account_executions", "account_balance", "account_positions",
    "market_quote", "symbol_search", "time" }

url_suffix(m) ==
  CASE m = "accounts" -> <<"accounts">>
    [] m = "account_activity" -> <<"accounts", "/", "123456", "/", "activities">>
    [] m = "account_orders" -> <<"accounts", "/", "123456", "/", "orders">>
    [] m = "account_order" -> <<"accounts", "/", "123456", "/", "orders", "/", "7">>
    [] m = "account_executions" -> <<"accounts", "/", "123456", "/", "executions">>
    [] m = "account_balance" -> <<"accounts", "/", "123456", "/", "balances">>
    [] m = "account_positions" -> <<"accounts", "/", "123456", "/", "positions">>
    [] m = "market_quote" -> <<"markets", "/", "quotes">>
    [] m = "symbol_search" -> <<"symbols", "/", "search">>
    [] m = "time" -> <<"time">>

(* Results of a call, as the caller sees them. *)
Ok(v) == [tag |-> "Ok", kind |-> v, status |-> 0]
NotAuthenticatedError(status) == [tag |-> "Err", kind |-> "NotAuthenticated", status |-> status]
ReqwestError(kind, status) == [tag |-> "Err", kind |-> kind, status |-> status]
(* The panic of RefCell::borrow ("BorrowError") and of RefCell::borrow_mut,
   which replace calls ("BorrowMutError"). *)
Panic(kind) == [tag |-> "Panic", kind |-> kind, status |-> 0]

(* ------------------------- the remote servers -------------------------- *)

Statuses == {200, 304, 401, 403, 404, 500}

Garbage == [tag |-> "garbage"]
Envelope == [tag |-> "envelope"]

(* AuthenticationInfoResponse: the four fields of a decodable token answer. *)
AuthenticationInfoResponse ==
  { [refresh_token |-> "r1", access_token |-> "a1", expires_in |-> 0, api_server |-> <<"s">>],
    [refresh_token |-> "r2", access_token |-> "a2", expires_in |-> 1, api_server |-> <<"s", "/">>],
    [refresh_token |-> "r3", access_token |-> "a3", expires_in |-> 2, api_server |-> <<"q", "/", "/">>] }

(* What a request can come back with: no response at all, or a status and a body. *)
TransportFailures ==
  { [transport |-> k, status |-> 0, body |-> Garbage] : k \in {"connect", "timeout"} }

EndpointResponses ==
  TransportFailures \cup
  { [transport |-> "ok", status |-> s, body |-> b] : s \in Statuses, b \in {Envelope, Garbage} }

TokenResponses ==
  TransportFailures \cup
  { [transport |-> "ok", status |-> s, body |-> b] :
      s \in Statuses, b \in AuthenticationInfoResponse \cup {Garbage} }

(* Refresh tokens a caller passes to authenticate. *)
RefreshTokens == {"r0", "r1"}

(* Sessions a caller hands to with_authentication (all fields are public). *)
SuppliedSessions ==
  { [ refresh_token |-> "", access_token |-> "mock-access-token", expires_at |-> 0,
      api_server |-> s, is_demo |-> d ] : s \in { <<"m">>, <<"m", "/">> }, d \in {FALSE} }

(* --------------------------- pure functions ---------------------------- *)

(* RefCell::try_borrow and RefCell::try_borrow_mut on the borrow flag. *)
try_borrow(flag) == flag >= 0
try_borrow_mut(flag) == flag = 0

(* trim_end_matches removing at most one trailing slash. *)
trim_end_matches_once(s) ==
  IF Len(s) > 0 /\ s[Len(s)] = "/" THEN SubSeq(s, 1, Len(s) - 1) ELSE s

RECURSIVE trim_end_matches(_)
trim_end_matches(s) ==
  IF Len(s) > 0 /\ s[Len(s)] = "/" THEN trim_end_matches(SubSeq(s, 1, Len(s) - 1)) ELSE s

(* get_url with its two branches exchanged. *)
get_url_swapped(is_demo) == IF is_demo THEN LiveUrl ELSE PracticeUrl

get_url(is_demo) == IF is_demo THEN PracticeUrl ELSE LiveUrl

(* reqwest::Response::error_for_status: an error for 4xx and 5xx only. *)
error_for_status(resp) ==
  IF resp.status >= 400 /\ resp.status <= 599
  THEN [ok |-> FALSE, err |-> ReqwestError("status", resp.status)]
  ELSE [ok |-> TRUE, val |-> resp]

(* wrap_error that reclassifies 401 alone. *)
wrap_error_only_401(e) ==
  IF e.kind = "status" /\ e.status = 401
  THEN NotAuthenticatedError(e.status)
  ELSE e

wrap_error(e) ==
  IF e.kind = "status" /\ (e.status = 401 \/ e.status = 403)
  THEN NotAuthenticatedError(e.status)
  ELSE e

DefaultSession ==
  [refresh_token |-> "", access_token |-> "", expires_at |-> 0, api_server |-> <<>>, is_demo |-> FALSE]

(* A gate that falls back to an empty session instead of failing. *)
get_active_auth_or_default ==
  IF auth_info = None
  THEN [ok |-> TRUE, val |-> DefaultSession]
  ELSE [ok |-> TRUE, val |-> auth_info]

(* A gate that also rejects a session whose expiry instant has passed. *)
get_active_auth_unexpired ==
  IF auth_info = None \/ auth_info.expires_at <= now
  THEN [ok |-> FALSE, err |-> NotAuthenticatedError(UNAUTHORIZED)]
  ELSE [ok |-> TRUE, val |-> auth_info]

get_active_auth ==
  IF auth_info = None
  THEN [ok |-> FALSE, err |-> NotAuthenticatedError(UNAUTHORIZED)]
  ELSE [ok |-> TRUE, val |-> auth_info]

(* A builder that leaves the version segment out of the URL. *)
get_request_builder_no_version(suffix) ==
  LET a == get_active_auth IN
  IF ~a.ok THEN a
  ELSE [ok |-> TRUE,
        val |-> [ method |-> "GET",
                  url |-> a.val.api_server \o <<"/">> \o suffix,
                  authorization |-> <<"Bearer ", a.val.access_token>> ]]

(* A builder that puts the refresh token in the bearer header. *)
get_request_builder_wrong_token(suffix) ==
  LET a == get_active_auth IN
  IF ~a.ok THEN a
  ELSE [ok |-> TRUE,
        val |-> [ method |-> "GET",
                  url |-> a.val.api_server \o <<"/">> \o API_VERSION \o <<"/">> \o suffix,
                  authorization |-> <<"Bearer ", a.val.refresh_token>> ]]

get_request_builder(suffix) ==
  LET a == get_active_auth IN
  IF ~a.ok THEN a
  ELSE [ok |-> TRUE,
        val |-> [ method |-> "GET",
                  url |-> a.val.api_server \o <<"/">> \o API_VERSION \o <<"/">> \o suffix,
                  authorization |-> <<"Bearer ", a.val.access_token>> ]]

(* The chain decoding the body before it looks at the status. *)
dispatch_decode_first(resp) ==
  IF resp.transport # "ok" THEN ReqwestError(resp.transport, 0)
  ELSE IF resp.body = Garbage THEN ReqwestError("decode", 0)
  ELSE LET s == error_for_status(resp) IN
       IF ~s.ok THEN wrap_error(s.err)
       ELSE Ok("value")

(* The chain with a 404 answer turned into a successful result. *)
dispatch_absent_on_404(resp) ==
  IF resp.transport # "ok" THEN ReqwestError(resp.transport, 0)
  ELSE IF resp.status = 404 THEN Ok("value")
  ELSE LET s == error_for_status(resp) IN
       IF ~s.ok THEN wrap_error(s.err)
       ELSE IF resp.body = Garbage THEN ReqwestError("decode", 0)
       ELSE Ok("value")

(* The chain send().await? .error_for_status().map_err(wrap_error)? .json().await? *)
dispatch(resp) ==
  IF resp.transport # "ok" THEN ReqwestError(resp.transport, 0)
  ELSE LET s == error_for_status(resp) IN
       IF ~s.ok THEN wrap_error(s.err)
       ELSE IF resp.body = Garbage THEN ReqwestError("decode", 0)
       ELSE Ok("value")

(* The request of AuthenticationInfo::refresh_access_token. *)
token_request(refresh_token, is_demo) ==
  [ method |-> "POST",
    url |-> get_url(is_demo),
    query |-> << <<"grant_type", "refresh_token">>, <<"refresh_token", refresh_token>> >>,
    content_length |-> 0,
    accept |-> "application/json" ]

(* refresh presenting the session's access token. *)
refresh_with_access_token(session) == token_request(session.access_token, session.is_demo)

(* The request of AuthenticationInfo::refresh: the exchange of authenticate
   with the session's own refresh_token and is_demo. *)
refresh(session) == token_request(session.refresh_token, session.is_demo)

(* An exchange that keeps the api_server of the session already held. *)
refresh_access_token_merging(resp, is_demo, instant) ==
  IF resp.transport # "ok" THEN [ok |-> FALSE, err |-> ReqwestError(resp.transport, 0)]
  ELSE LET s == error_for_status(resp) IN
       IF ~s.ok THEN s
       ELSE IF resp.body = Garbage THEN [ok |-> FALSE, err |-> ReqwestError("decode", 0)]
       ELSE [ok |-> TRUE,
             val |-> [ refresh_token |-> resp.body.refresh_token,
                       access_token |-> resp.body.access_token,
                       expires_at |-> instant + resp.body.expires_in,
                       api_server |-> IF auth_info = None
                                      THEN trim_end_matches(resp.body.api_server)
                                      ELSE auth_info.api_server,
                       is_demo |-> is_demo ]]

(* An exchange that passes its status errors through wrap_error. *)
refresh_access_token_wrapping(resp, is_demo, instant) ==
  IF resp.transport # "ok" THEN [ok |-> FALSE, err |-> ReqwestError(resp.transport, 0)]
  ELSE LET s == error_for_status(resp) IN
       IF ~s.ok THEN [ok |-> FALSE, err |-> wrap_error(s.err)]
       ELSE IF resp.body = Garbage THEN [ok |-> FALSE, err |-> ReqwestError("decode", 0)]
       ELSE [ok |-> TRUE,
             val |-> [ refresh_token |-> resp.body.refresh_token,
                       access_token |-> resp.body.access_token,
                       expires_at |-> instant + resp.body.expires_in,
                       api_server |-> trim_end_matches(resp.body.api_server),
                       is_demo |-> is_demo ]]

(* The rest of refresh_access_token, from the answer to its result. *)
refresh_access_token(resp, is_demo, instant) ==
  IF resp.transport # "ok" THEN [ok |-> FALSE, err |-> ReqwestError(resp.transport, 0)]
  ELSE LET s == error_for_status(resp) IN
       IF ~s.ok THEN s
       ELSE IF resp.body = Garbage THEN [ok |-> FALSE, err |-> ReqwestError("decode", 0)]
       ELSE [ok |-> TRUE,
             val |-> [ refresh_token |-> resp.body.refresh_token,
                       access_token |-> resp.body.access_token,
                       expires_at |-> instant + resp.body.expires_in,
                       api_server |-> trim_end_matches(resp.body.api_server),
                       is_demo |-> is_demo ]]

(* ------------------------------ actions -------------------------------- *)

NoExchange == [tag |-> "NoExchange"]
NoProbe == [fn |-> "none"]

Init ==
  /\ auth_info \in {None} \cup SuppliedSessions
  /\ origin = NoExchange
  /\ now = 0
  /\ pc = [t \in Tasks |-> "idle"]
  /\ call = [t \in Tasks |-> NoCall]
  /\ req = [t \in Tasks |-> NoReq]
  /\ sent = [t \in Tasks |-> 0]
  /\ result = [t \in Tasks |-> NoResult]
  /\ ncalls = 0
  /\ probe = NoProbe
  /\ borrow = 0

(* An endpoint call that starts a token exchange when the session has expired. *)
EndpointCallAutoRefresh(t, m) ==
  /\ t = ncalls + 1
  /\ pc[t] = "idle"
  /\ ncalls' = ncalls + 1
  /\ LET rb == get_request_builder(url_suffix(m)) IN
     IF rb.ok
     THEN /\ pc' = [pc EXCEPT ![t] = "sent"]
          /\ call' = [call EXCEPT ![t] = [op |-> m]]
          /\ req' = [req EXCEPT ![t] =
                       IF auth_info.expires_at <= now
                       THEN token_request(auth_info.refresh_token, auth_info.is_demo)
                       ELSE rb.val]
          /\ sent' = [sent EXCEPT ![t] = 1]
          /\ UNCHANGED result
     ELSE /\ pc' = [pc EXCEPT ![t] = "done"]
          /\ result' = [result EXCEPT ![t] = rb.err]
          /\ UNCHANGED <<call, req, sent>>
  /\ UNCHANGED <<auth_info, origin, now, probe, borrow>>

(* An endpoint method up to its first suspension: gate, build, send.  The
   gate borrows the slot, clones it and drops the borrow in one statement. *)
EndpointCall(t, m) ==
  /\ t = ncalls + 1
  /\ pc[t] = "idle"
  /\ ncalls' = ncalls + 1
  /\ IF ~try_borrow(borrow)
     THEN /\ pc' = [pc EXCEPT ![t] = "done"]
          /\ result' = [result EXCEPT ![t] = Panic("BorrowError")]
          /\ UNCHANGED <<call, req, sent>>
     ELSE LET rb == get_request_builder(url_suffix(m)) IN
          IF rb.ok
          THEN /\ pc' = [pc EXCEPT ![t] = "sent"]
               /\ call' = [call EXCEPT ![t] = [op |-> m]]
               /\ req' = [req EXCEPT ![t] = rb.val]
               /\ sent' = [sent EXCEPT ![t] = 1]
               /\ UNCHANGED result
          ELSE /\ pc' = [pc EXCEPT ![t] = "done"]
               /\ result' = [result EXCEPT ![t] = rb.err]
               /\ UNCHANGED <<call, req, sent>>
  /\ UNCHANGED <<auth_info, origin, now, probe, borrow>>

(* An endpoint return that empties the slot after NotAuthenticated. *)
EndpointRespondClearing(t, resp) ==
  /\ pc[t] = "sent"
  /\ call[t].op \in Methods
  /\ result' = [result EXCEPT ![t] = dispatch(resp)]
  /\ pc' = [pc EXCEPT ![t] = "done"]
  /\ req' = [req EXCEPT ![t] = NoReq]
  /\ call' = [call EXCEPT ![t] = NoCall]
  /\ auth_info' = IF dispatch(resp).kind = "NotAuthenticated" THEN None ELSE auth_info
  /\ UNCHANGED <<origin, now, sent, ncalls, probe, borrow>>

(* An endpoint return that sends the request once more after a failure. *)
EndpointRespondRetrying(t, resp) ==
  /\ pc[t] = "sent"
  /\ call[t].op \in Methods
  /\ IF dispatch(resp).tag = "Err" /\ sent[t] < 2
     THEN /\ sent' = [sent EXCEPT ![t] = sent[t] + 1]
          /\ UNCHANGED <<pc, req, result, call>>
     ELSE /\ pc' = [pc EXCEPT ![t] = "done"]
          /\ req' = [req EXCEPT ![t] = NoReq]
          /\ result' = [result EXCEPT ![t] = dispatch(resp)]
          /\ call' = [call EXCEPT ![t] = NoCall]
          /\ UNCHANGED sent
  /\ UNCHANGED <<auth_info, origin, now, ncalls, probe, borrow>>

(* An endpoint return that fails with NotAuthenticated once another call of
   the client has failed so. *)
EndpointRespondSharingFailure(t, resp) ==
  /\ pc[t] = "sent"
  /\ call[t].op \in Methods
  /\ result' = [result EXCEPT ![t] =
                  IF \E u \in Tasks \ {t} : result[u].kind = "NotAuthenticated"
                  THEN NotAuthenticatedError(UNAUTHORIZED)
                  ELSE dispatch(resp)]
  /\ pc' = [pc EXCEPT ![t] = "done"]
  /\ req' = [req EXCEPT ![t] = NoReq]
  /\ call' = [call EXCEPT ![t] = NoCall]
  /\ UNCHANGED <<auth_info, origin, now, sent, ncalls, probe, borrow>>

(* An endpoint method from the answer to its return.  (The arguments of a
   call live in its future and are gone once it has returned.) *)
EndpointRespond(t, resp) ==
  /\ pc[t] = "sent"
  /\ call[t].op \in Methods
  /\ result' = [result EXCEPT ![t] = dispatch(resp)]
  /\ pc' = [pc EXCEPT ![t] = "done"]
  /\ req' = [req EXCEPT ![t] = NoReq]
  /\ call' = [call EXCEPT ![t] = NoCall]
  /\ UNCHANGED <<auth_info, origin, now, sent, ncalls, probe, borrow>>

(* An authenticate that takes borrow_mut before it awaits the exchange. *)
AuthenticateCallHoldingBorrow(t, refresh_token, is_demo) ==
  /\ t = ncalls + 1
  /\ pc[t] = "idle"
  /\ ncalls' = ncalls + 1
  /\ IF ~try_borrow_mut(borrow)
     THEN /\ pc' = [pc EXCEPT ![t] = "done"]
          /\ result' = [result EXCEPT ![t] = Panic("BorrowMutError")]
          /\ UNCHANGED <<call, req, sent, borrow>>
     ELSE /\ call' = [call EXCEPT ![t] = [op |-> "authenticate", is_demo |-> is_demo]]
          /\ pc' = [pc EXCEPT ![t] = "sent"]
          /\ req' = [req EXCEPT ![t] = token_request(refresh_token, is_demo)]
          /\ sent' = [sent EXCEPT ![t] = 1]
          /\ borrow' = -1
          /\ UNCHANGED result
  /\ UNCHANGED <<auth_info, origin, now, probe>>

(* Questrade::authenticate up to the suspension in send(): the argument of
   replace is awaited before replace is called, so the slot is not borrowed. *)
AuthenticateCall(t, refresh_token, is_demo) ==
  /\ t = ncalls + 1
  /\ pc[t] = "idle"
  /\ ncalls' = ncalls + 1
  /\ call' = [call EXCEPT ![t] = [op |-> "authenticate", is_demo |-> is_demo]]
  /\ pc' = [pc EXCEPT ![t] = "sent"]
  /\ req' = [req EXCEPT ![t] = token_request(refresh_token, is_demo)]
  /\ sent' = [sent EXCEPT ![t] = 1]
  /\ UNCHANGED <<auth_info, origin, now, result, probe, borrow>>

(* An authenticate return that empties the slot when the exchange failed. *)
AuthenticateRespondClearing(t, resp) ==
  /\ pc[t] = "sent"
  /\ call[t].op = "authenticate"
  /\ LET r == refresh_access_token(resp, call[t].is_demo, now) IN
     IF r.ok
     THEN /\ auth_info' = r.val
          /\ origin' = [body |-> resp.body, url |-> req[t].url, at |-> now]
          /\ result' = [result EXCEPT ![t] = Ok("unit")]
     ELSE /\ result' = [result EXCEPT ![t] = r.err]
          /\ auth_info' = None
          /\ UNCHANGED origin
  /\ pc' = [pc EXCEPT ![t] = "done"]
  /\ req' = [req EXCEPT ![t] = NoReq]
  /\ call' = [call EXCEPT ![t] = NoCall]
  /\ UNCHANGED <<now, sent, ncalls, probe, borrow>>

(* An authenticate return that takes the session out of the slot when the
   exchange failed with a status error. *)
AuthenticateRespondTaking(t, resp) ==
  /\ pc[t] = "sent"
  /\ call[t].op = "authenticate"
  /\ LET r == refresh_access_token(resp, call[t].is_demo, now) IN
     IF ~r.ok
     THEN /\ result' = [result EXCEPT ![t] = r.err]
          /\ auth_info' = IF r.err.kind = "status" THEN None ELSE auth_info
          /\ UNCHANGED origin
     ELSE /\ auth_info' = r.val
          /\ origin' = [body |-> resp.body, url |-> req[t].url, at |-> now]
          /\ result' = [result EXCEPT ![t] = Ok("unit")]
  /\ pc' = [pc EXCEPT ![t] = "done"]
  /\ req' = [req EXCEPT ![t] = NoReq]
  /\ call' = [call EXCEPT ![t] = NoCall]
  /\ UNCHANGED <<now, sent, ncalls, probe, borrow>>

(* An authenticate return that keeps a session already in the slot. *)
AuthenticateRespondKeeping(t, resp) ==
  /\ pc[t] = "sent"
  /\ call[t].op = "authenticate"
  /\ LET r == refresh_access_token(resp, call[t].is_demo, now) IN
     IF ~r.ok
     THEN /\ result' = [result EXCEPT ![t] = r.err]
          /\ UNCHANGED <<auth_info, origin>>
     ELSE /\ auth_info' = IF auth_info = None THEN r.val ELSE auth_info
          /\ origin' = IF auth_info = None
                       THEN [body |-> resp.body, url |-> req[t].url, at |-> now]
                       ELSE origin
          /\ result' = [result EXCEPT ![t] = Ok("unit")]
  /\ pc' = [pc EXCEPT ![t] = "done"]
  /\ req' = [req EXCEPT ![t] = NoReq]
  /\ call' = [call EXCEPT ![t] = NoCall]
  /\ UNCHANGED <<now, sent, ncalls, probe, borrow>>

(* Questrade::authenticate from the answer to its return: the slot is
   replaced only when the exchange produced a session; replace borrows the
   slot mutably for the swap and returns. *)
AuthenticateRespond(t, resp) ==
  /\ pc[t] = "sent"
  /\ call[t].op = "authenticate"
  /\ LET r == refresh_access_token(resp, call[t].is_demo, now) IN
     IF ~r.ok
     THEN /\ result' = [result EXCEPT ![t] = r.err]
          /\ UNCHANGED <<auth_info, origin>>
     ELSE IF ~try_borrow_mut(borrow)
     THEN /\ result' = [result EXCEPT ![t] = Panic("BorrowMutError")]
          /\ UNCHANGED <<auth_info, origin>>
     ELSE /\ auth_info' = r.val
          /\ origin' = [body |-> resp.body, url |-> req[t].url, at |-> now]
          /\ result' = [result EXCEPT ![t] = Ok("unit")]
  /\ pc' = [pc EXCEPT ![t] = "done"]
  /\ req' = [req EXCEPT ![t] = NoReq]
  /\ call' = [call EXCEPT ![t] = NoCall]
  /\ UNCHANGED <<now, sent, ncalls, probe, borrow>>

(* Questrade::get_auth_info: borrow, clone, drop the borrow; no suspension.
   The result records whether the Option returned is Some or None. *)
GetAuthInfo(t) ==
  /\ t = ncalls + 1
  /\ pc[t] = "idle"
  /\ ncalls' = ncalls + 1
  /\ pc' = [pc EXCEPT ![t] = "done"]
  /\ result' = [result EXCEPT ![t] =
                  IF ~try_borrow(borrow) THEN Panic("BorrowError")
                  ELSE IF auth_info = None THEN Ok("None") ELSE Ok("Some")]
  /\ UNCHANGED <<auth_info, origin, now, call, req, sent, probe, borrow>>

(* Time passes (Instant::now() is monotonic). *)
Tick ==
  /\ now < MaxTime
  /\ now' = now + 1
  /\ UNCHANGED <<auth_info, origin, pc, call, req, sent, result, ncalls, probe, borrow>>

Next ==
  \/ \E t \in Tasks, m \in Methods : EndpointCall(t, m)
  \/ \E t \in Tasks, resp \in EndpointResponses : EndpointRespond(t, resp)
  \/ \E t \in Tasks, rt \in RefreshTokens, d \in BOOLEAN : AuthenticateCall(t, rt, d)
  \/ \E t \in Tasks, resp \in TokenResponses : AuthenticateRespond(t, resp)
  \/ \E t \in Tasks : GetAuthInfo(t)
  \/ Tick

Spec == Init /\ [][Next]_vars

(* ------------------- pure functions of one answer ---------------------- *)
(* SpecPure applies one pure function of the crate to one input: probe holds *)
(* the function, its input and, once applied, its output.                    *)

(* A 64-bit number as four 16-bit limbs, least significant first. *)
Limb == 65536
U64 == [1..4 -> 0..(Limb - 1)]
U64_MAX == <<65535, 65535, 65535, 65535>>
I64_MAX == <<65535, 65535, 65535, 32767>>
Zero64 == <<0, 0, 0, 0>>

(* a + b as five limbs: the sum without any wrap. *)
WideSum(a, b) ==
  LET s1 == a[1] + b[1]
      s2 == a[2] + b[2] + (s1 \div Limb)
      s3 == a[3] + b[3] + (s2 \div Limb)
      s4 == a[4] + b[4] + (s3 \div Limb)
  IN  <<s1 % Limb, s2 % Limb, s3 % Limb, s4 % Limb, s4 \div Limb>>

(* Instant::checked_add: tv_sec is an i64, the seconds of the Duration a u64;
   None when the sum does not fit an i64. *)
instant_checked_add(instant, secs) ==
  LET w == WideSum(instant, secs) IN
  IF w[5] # 0 \/ w[4] > I64_MAX[4]
  THEN [some |-> FALSE, val |-> Zero64]
  ELSE [some |-> TRUE, val |-> SubSeq(w, 1, 4)]

(* Instant::now().add(Duration::from_secs(response.expires_in)): Add for
   Instant panics where checked_add is None. *)
expires_at(instant, expires_in) ==
  LET r == instant_checked_add(instant, expires_in) IN
  [panic |-> ~r.some, val |-> r.val]

(* Vec::pop: the last element, None on an empty vector. *)
pop(orders) ==
  IF Len(orders) = 0 THEN [some |-> FALSE, id |-> 0]
  ELSE [some |-> TRUE, id |-> orders[Len(orders)]]

(* Questrade::account_order after the body decoded into response.orders. *)
account_order(orders) == [tag |-> "Ok", val |-> pop(orders)]

(* JSON values of one field of a payload (JAbsent: the key is missing) and
   the Rust values they decode to. *)
JNull == [t |-> "null", n |-> 0, s |-> "", b |-> FALSE]
JAbsent == [t |-> "absent", n |-> 0, s |-> "", b |-> FALSE]
JNum(n) == [t |-> "num", n |-> n, s |-> "", b |-> FALSE]
JStr(s) == [t |-> "str", n |-> 0, s |-> s, b |-> FALSE]
JBool(b) == [t |-> "bool", n |-> 0, s |-> "", b |-> b]

RNone == [t |-> "None", n |-> 0, s |-> "", b |-> FALSE]
RSome(s) == [t |-> "Some", n |-> 0, s |-> s, b |-> FALSE]
RNum(n) == [t |-> "Number", n |-> n, s |-> "", b |-> FALSE]
RStr(s) == [t |-> "String", n |-> 0, s |-> s, b |-> FALSE]
RBool(b) == [t |-> "bool", n |-> 0, s |-> "", b |-> b]
(* A variant of an enum, named as serde names it on the wire. *)
RVariant(s) == [t |-> "variant", n |-> 0, s |-> s, b |-> FALSE]

(* The variants of ApiError for decode failures. *)
MissingFieldError(field) ==
  [tag |-> "Err", kind |-> "MissingField", status |-> 0, field |-> field]
InvalidTypeError(field, expected) ==
  [tag |-> "Err", kind |-> "InvalidType", status |-> 0, field |-> field, expected |-> expected]

(* Results of serde: a value, or the cause of the failure. *)
DeOk(v) == [ok |-> TRUE, val |-> v, cause |-> ""]
DeErr(cause) == [ok |-> FALSE, val |-> RNone, cause |-> cause]

(* Deserialize for serde_json::Number, String, bool, u8, Option<Number> and
   Option<String>. *)
deserialize_number(v) == IF v.t = "num" THEN DeOk(RNum(v.n)) ELSE DeErr("invalid type")
deserialize_string(v) == IF v.t = "str" THEN DeOk(RStr(v.s)) ELSE DeErr("invalid type")
deserialize_bool(v) == IF v.t = "bool" THEN DeOk(RBool(v.b)) ELSE DeErr("invalid type")
deserialize_u8(v) ==
  IF v.t # "num" THEN DeErr("invalid type")
  ELSE IF v.n \in 0..255 THEN DeOk(RNum(v.n))
  ELSE DeErr("invalid value")
deserialize_option_number(v) == IF v.t = "null" THEN DeOk(RNone) ELSE deserialize_number(v)
deserialize_option_string(v) ==
  IF v.t = "null" THEN DeOk(RNone)
  ELSE IF v.t = "str" THEN DeOk(RSome(v.s))
  ELSE DeErr("invalid type")

(* The closed enumerations of the records and the name serde gives each
   variant (its rename, or the identifier). *)
Enums ==
  { "AccountType", "AccountStatus", "ClientAccountType", "OrderSide", "OrderType",
    "OrderTimeInForce", "OrderState", "Currency", "ListingExchange", "SecurityType",
    "TickType" }

variants(enum) ==
  CASE enum = "AccountType" ->
         { "Cash", "Margin", "TFSA", "RRSP", "SRRSP", "LRRSP", "LIRA", "LIF",
           "RIF", "SRIF", "LRIF", "RRIF", "PRIF", "RESP", "FRESP" }
    [] enum = "AccountStatus" ->
         { "Active", "Suspended (Closed)", "Suspended (View Only)",
           "Liquidate Only", "Closed" }
    [] enum = "ClientAccountType" ->
         { "Individual", "Joint", "Informal Trust", "Corporation",
           "Investment Club", "Formal Trust", "Partnership",
           "Sole Proprietorship", "Family", "Joint and Informal Trust",
           "Institution" }
    [] enum = "OrderSide" ->
         { "Buy", "Sell", "Short", "Cov", "BTO", "STC", "STO", "BTC" }
    [] enum = "OrderType" ->
         { "Market", "Limit", "Stop", "StopLimit", "TrailStopInPercentage",
           "TrailStopInDollar", "TrailStopLimitInPercentage",
           "TrailStopLimitInDollar", "LimitOnOpen", "LimitOnClose" }
    [] enum = "OrderTimeInForce" ->
         { "Day", "GoodTillCanceled", "GoodTillExtendedDay", "GoodTillDate",
           "ImmediateOrCancel", "FillOrKill" }
    [] enum = "OrderState" ->
         { "Failed", "Pending", "Accepted", "Rejected", "CancelPending",
           "Canceled", "PartialCanceled", "Partial", "Executed",
           "ReplacePending", "Replaced", "Stopped", "Suspended", "Expired",
           "Queued", "Triggered", "Activated", "PendingRiskReview",
           "ContingentOrder" }
    [] enum = "Currency" ->
         { "CAD", "USD" }
    [] enum = "ListingExchange" ->
         { "TSX", "TSXI", "TSXV", "CNSX", "MX", "NASDAQ", "NASDAQI", "NYSE",
           "NYSEAM", "NYSEGIF", "ARCA", "OPRA", "PINX", "OTCBB", "BATS", "DJI",
           "S&P", "NEO", "RUSSELL", "" }
    [] enum = "SecurityType" ->
         { "Stock", "Option", "Bond", "Right", "Gold", "MutualFund", "Index" }
    [] enum = "TickType" ->
         { "Up", "Down", "Equal" }

(* An enum decoder that falls back to the enum's first variant. *)
deserialize_enum_defaulting(enum, v) ==
  IF v.t # "str" THEN DeErr("invalid type")
  ELSE IF v.s \in variants(enum) THEN DeOk(RVariant(v.s))
  ELSE DeOk(RVariant(CHOOSE s \in variants(enum) : TRUE))

(* The derived Deserialize of an enum: no variant is marked serde(other). *)
deserialize_enum(enum, v) ==
  IF v.t # "str" THEN DeErr("invalid type")
  ELSE IF v.s \in variants(enum) THEN DeOk(RVariant(v.s))
  ELSE DeErr("unknown variant")

(* deserialize_nullable_number refusing null. *)
deserialize_nullable_number_strict(v) == deserialize_number(v)

deserialize_nullable_number(v) ==
  LET number == deserialize_option_number(v) IN
  IF ~number.ok THEN number
  ELSE IF number.val = RNone THEN DeOk(RNum(0))
  ELSE DeOk(number.val)

deserialize_delay(v) ==
  LET delay == deserialize_u8(v) IN
  IF ~delay.ok THEN delay
  ELSE IF delay.val.n = 0 THEN DeOk(RBool(FALSE))
  ELSE IF delay.val.n = 1 THEN DeOk(RBool(TRUE))
  ELSE DeErr("custom")

(* string_empty_as_none keeping a present empty string. *)
string_empty_as_some(v, null_is_none) ==
  IF v.t = "str" THEN DeOk(RSome(v.s))
  ELSE IF v.t = "null" /\ null_is_none THEN DeOk(RNone)
  ELSE DeErr("invalid type")

(* serde_with::rust::string_empty_as_none::deserialize; whether null is
   accepted (as None) depends on the serde_with release the build resolves. *)
string_empty_as_none(v, null_is_none) ==
  IF v.t = "str" THEN (IF v.s = "" THEN DeOk(RNone) ELSE DeOk(RSome(v.s)))
  ELSE IF v.t = "null" /\ null_is_none THEN DeOk(RNone)
  ELSE DeErr("invalid type")

(* The fields of the records whose serde attributes differ, by JSON key,
   and the field type and deserialize_with of each. *)
Fields ==
  { "AccountOrder.totalQuantity", "AccountOrder.openQuantity",
    "AccountOrder.filledQuantity", "AccountOrder.canceledQuantity",
    "AccountOrder.comissionCharged", "AccountOrder.placementCommission",
    "AccountOrder.clientReasonStr", "AccountOrder.notes",
    "AccountOrder.primaryRoute", "AccountOrder.secondaryRoute",
    "AccountOrder.orderRoute", "AccountOrder.venueHoldingOrder",
    "AccountOrder.exchangeOrderId", "AccountOrder.orderClass",
    "AccountExecution.notes", "MarketQuote.tier", "MarketQuote.delay",
    "MarketQuote.isHalted",
    "Account.type", "Account.status", "Account.clientAccountType",
    "AccountOrder.side", "AccountOrder.orderType", "AccountOrder.timeInForce",
    "AccountOrder.state", "AccountExecution.side", "AccountBalance.currency",
    "MarketQuote.lastTradeTick", "SearchEquitySymbol.securityType",
    "SearchEquitySymbol.listingExchange", "SearchEquitySymbol.currency" }

type_of(field) ==
  CASE field \in { "AccountOrder.totalQuantity", "AccountOrder.openQuantity",
                   "AccountOrder.filledQuantity", "AccountOrder.canceledQuantity",
                   "AccountOrder.comissionCharged", "AccountOrder.placementCommission" }
         -> "Number"
    [] field \in { "AccountOrder.primaryRoute", "AccountOrder.orderRoute",
                   "AccountOrder.exchangeOrderId" }
         -> "String"
    [] field \in { "AccountOrder.clientReasonStr", "AccountOrder.notes",
                   "AccountOrder.secondaryRoute", "AccountOrder.venueHoldingOrder",
                   "AccountOrder.orderClass", "AccountExecution.notes", "MarketQuote.tier" }
         -> "Option<String>"
    [] field \in { "MarketQuote.delay", "MarketQuote.isHalted" }
         -> "bool"
    [] field = "Account.type" -> "AccountType"
    [] field = "Account.status" -> "AccountStatus"
    [] field = "Account.clientAccountType" -> "ClientAccountType"
    [] field \in { "AccountOrder.side", "AccountExecution.side" } -> "OrderSide"
    [] field = "AccountOrder.orderType" -> "OrderType"
    [] field = "AccountOrder.timeInForce" -> "OrderTimeInForce"
    [] field = "AccountOrder.state" -> "OrderState"
    [] field \in { "AccountBalance.currency", "SearchEquitySymbol.currency" } -> "Currency"
    [] field = "MarketQuote.lastTradeTick" -> "TickType"
    [] field = "SearchEquitySymbol.securityType" -> "SecurityType"
    [] field = "SearchEquitySymbol.listingExchange" -> "ListingExchange"

deserialize_with(field) ==
  CASE field \in { "AccountOrder.openQuantity", "AccountOrder.filledQuantity",
                   "AccountOrder.canceledQuantity", "AccountOrder.comissionCharged",
                   "AccountOrder.placementCommission" }
         -> "deserialize_nullable_number"
    [] field \in { "AccountOrder.clientReasonStr", "AccountOrder.notes",
                   "AccountOrder.secondaryRoute", "AccountOrder.venueHoldingOrder",
                   "AccountExecution.notes", "MarketQuote.tier" }
         -> "string_empty_as_none"
    [] field = "MarketQuote.delay"
         -> "deserialize_delay"
    [] OTHER -> "derived"

(* The derived Deserialize for one field: a missing key is None for a plain
   Option and an error for every other field, deserialize_with included. *)
deserialize_field(field, v, null_is_none) ==
  LET with == deserialize_with(field) IN
  IF v = JAbsent
  THEN IF with = "derived" /\ type_of(field) = "Option<String>"
       THEN DeOk(RNone) ELSE DeErr("missing field")
  ELSE CASE with = "deserialize_nullable_number" -> deserialize_nullable_number(v)
         [] with = "string_empty_as_none" -> string_empty_as_none(v, null_is_none)
         [] with = "deserialize_delay" -> deserialize_delay(v)
         [] with = "derived" /\ type_of(field) = "Number" -> deserialize_number(v)
         [] with = "derived" /\ type_of(field) = "String" -> deserialize_string(v)
         [] with = "derived" /\ type_of(field) = "Option<String>" -> deserialize_option_string(v)
         [] with = "derived" /\ type_of(field) = "bool" -> deserialize_bool(v)
         [] with = "derived" /\ type_of(field) \in Enums -> deserialize_enum(type_of(field), v)

(* .json::<T>().await? of an endpoint for a body whose one field under test
   is v: the value, or the decode error of reqwest the caller receives. *)
json(field, v, null_is_none) ==
  LET r == deserialize_field(field, v, null_is_none) IN
  [ok |-> r.ok, val |-> r.val, cause |-> r.cause,
   err |-> IF r.ok THEN NoResult ELSE ReqwestError("decode", 0)]

(* The derived Serialize for one field. *)
serialize(x) ==
  CASE x.t = "Number" -> JNum(x.n)
    [] x.t = "String" -> JStr(x.s)
    [] x.t = "bool" -> JBool(x.b)
    [] x.t = "None" -> JNull
    [] x.t = "Some" -> JStr(x.s)
    [] x.t = "variant" -> JStr(x.s)

(* Encoding a field to JSON and decoding that JSON. *)
round_trip(field, x, null_is_none) == json(field, serialize(x), null_is_none)

Nums == (-1..MaxNum) \cup {255, 256}
Strings == {"", "AUTO"}
(* Strings of a payload: those, every name of a variant, and names no enum
   declares (a Rust identifier that is renamed on the wire among them). *)
WireStrings ==
  Strings \cup UNION { variants(e) : e \in Enums } \cup {"Cover", "EUR", "cad", "None"}
JsonValues ==
  {JNull, JAbsent} \cup {JBool(b) : b \in BOOLEAN} \cup {JNum(n) : n \in Nums}
    \cup {JStr(s) : s \in WireStrings}
ValuesOf(type) ==
  CASE type = "Number" -> {RNum(n) : n \in Nums}
    [] type = "String" -> {RStr(s) : s \in Strings}
    [] type = "Option<String>" -> {RNone} \cup {RSome(s) : s \in Strings}
    [] type = "bool" -> {RBool(b) : b \in BOOLEAN}
    [] type \in Enums -> {RVariant(s) : s \in variants(type)}

NoOut == [ok |-> FALSE, val |-> RNone, cause |-> "", err |-> NoResult]
DecodeProbes ==
  { [fn |-> "decode", field |-> f, json |-> v, null_is_none |-> b, pending |-> TRUE,
     out |-> NoOut] : f \in Fields, v \in JsonValues, b \in BOOLEAN }
RoundTripProbes ==
  UNION { { [fn |-> "round_trip", field |-> f, value |-> x, null_is_none |-> b,
             pending |-> TRUE, out |-> NoOut] : x \in ValuesOf(type_of(f)), b \in BOOLEAN }
          : f \in Fields }

(* Option<T> arguments of account_orders. *)
Absent(v) == [some |-> FALSE, v |-> v]
Present(v) == [some |-> TRUE, v |-> v]

(* DateTime::to_rfc3339 for an instant t seconds into 1970-01-01 (t < 60). *)
to_rfc3339(t) == <<"1970-01-01T00:00:", t \div 10, t % 10, "+00:00">>

(* The match of account_orders on its OrderStateFilter. *)
state_filter(state) ==
  CASE state = "OrderStateFilter::All" -> "All"
    [] state = "OrderStateFilter::Open" -> "Open"
    [] state = "OrderStateFilter::Closed" -> "Closed"

(* A query that sends stateFilter=All when no filter is given. *)
query_params_default_filter(start_time, end_time, state) ==
  (IF start_time.some THEN << <<"startTime", to_rfc3339(start_time.v)>> >> ELSE <<>>)
  \o (IF end_time.some THEN << <<"endTime", to_rfc3339(end_time.v)>> >> ELSE <<>>)
  \o (IF state.some THEN << <<"stateFilter", <<state_filter(state.v)>> >> >>
      ELSE << <<"stateFilter", <<"All">> >> >>)

(* query_params of account_orders: one push per argument that is Some. *)
query_params(start_time, end_time, state) ==
  (IF start_time.some THEN << <<"startTime", to_rfc3339(start_time.v)>> >> ELSE <<>>)
  \o (IF end_time.some THEN << <<"endTime", to_rfc3339(end_time.v)>> >> ELSE <<>>)
  \o (IF state.some THEN << <<"stateFilter", <<state_filter(state.v)>> >> >> ELSE <<>>)

OrderStateFilter ==
  { "OrderStateFilter::All", "OrderStateFilter::Open", "OrderStateFilter::Closed" }
Times == {Absent(0)} \cup {Present(t) : t \in 0..MaxNum}
StateFilters == {Absent("")} \cup {Present(f) : f \in OrderStateFilter}
QueryProbes ==
  { [fn |-> "account_orders_query", start_time |-> a, end_time |-> b, state |-> f,
     pending |-> TRUE, out |-> <<>>] : a \in Times, b \in Times, f \in StateFilters }

(* Capture instants (seconds on the monotonic clock) and lifetimes. *)
Instants == { Zero64, <<1, 0, 0, 0>>, <<20864, 1, 0, 0>> }
Lifetimes ==
  { Zero64, <<1, 0, 0, 0>>, <<1800, 0, 0, 0>>,
    <<44671, 65534, 65535, 32767>>, I64_MAX, <<0, 0, 0, 32768>>, U64_MAX }

OrderIds == 1..MaxOrders
RECURSIVE SeqsUpTo(_, _)
SeqsUpTo(S, n) ==
  IF n = 0 THEN { <<>> }
  ELSE LET shorter == SeqsUpTo(S, n - 1) IN
       shorter \cup { Append(q, x) : q \in { r \in shorter : Len(r) = n - 1 }, x \in S }
OrdersArrays == SeqsUpTo(OrderIds, MaxOrders)

ExpiresAtProbes ==
  { [fn |-> "expires_at", instant |-> i, expires_in |-> e, pending |-> TRUE,
     out |-> [panic |-> FALSE, val |-> Zero64]] : i \in Instants, e \in Lifetimes }
AccountOrderProbes ==
  { [fn |-> "account_order", orders |-> o, pending |-> TRUE,
     out |-> [tag |-> "Ok", val |-> [some |-> FALSE, id |-> 0]]] : o \in OrdersArrays }

Idle ==
  /\ auth_info = None
  /\ borrow = 0
  /\ origin = NoExchange
  /\ now = 0
  /\ pc = [t \in Tasks |-> "idle"]
  /\ call = [t \in Tasks |-> NoCall]
  /\ req = [t \in Tasks |-> NoReq]
  /\ sent = [t \in Tasks |-> 0]
  /\ result = [t \in Tasks |-> NoResult]
  /\ ncalls = 0

InitPure ==
  /\ Idle
  /\ \/ probe \in ExpiresAtProbes
     \/ probe \in AccountOrderProbes
     \/ probe \in DecodeProbes
     \/ probe \in RoundTripProbes
     \/ probe \in QueryProbes

ExpiresAt ==
  /\ probe.fn = "expires_at"
  /\ probe.pending
  /\ probe' = [probe EXCEPT !.pending = FALSE,
                            !.out = expires_at(probe.instant, probe.expires_in)]
  /\ UNCHANGED <<auth_info, borrow, origin, now, pc, call, req, sent, result, ncalls>>

AccountOrder ==
  /\ probe.fn = "account_order"
  /\ probe.pending
  /\ probe' = [probe EXCEPT !.pending = FALSE, !.out = account_order(probe.orders)]
  /\ UNCHANGED <<auth_info, borrow, origin, now, pc, call, req, sent, result, ncalls>>

Decode ==
  /\ probe.fn = "decode"
  /\ probe.pending
  /\ probe' = [probe EXCEPT !.pending = FALSE,
                            !.out = json(probe.field, probe.json, probe.null_is_none)]
  /\ UNCHANGED <<auth_info, borrow, origin, now, pc, call, req, sent, result, ncalls>>

RoundTrip ==
  /\ probe.fn = "round_trip"
  /\ probe.pending
  /\ probe' = [probe EXCEPT !.pending = FALSE,
                            !.out = round_trip(probe.field, probe.value, probe.null_is_none)]
  /\ UNCHANGED <<auth_info, borrow, origin, now, pc, call, req, sent, result, ncalls>>

AccountOrdersQuery ==
  /\ probe.fn = "account_orders_query"
  /\ probe.pending
  /\ probe' = [probe EXCEPT !.pending = FALSE,
                            !.out = query_params(probe.start_time, probe.end_time, probe.state)]
  /\ UNCHANGED <<auth_info, borrow, origin, now, pc, call, req, sent, result, ncalls>>

NextPure ==
  \/ ExpiresAt
  \/ AccountOrder
  \/ Decode
  \/ RoundTrip
  \/ AccountOrdersQuery

SpecPure == InitPure /\ [][NextPure]_vars

(* ------------------------------ claims --------------------------------- *)

(* Task t makes its call in this step; task t gets its answer in this step. *)
Calls(t) == pc[t] = "idle" /\ pc'[t] # "idle"
EndpointAnswered(t) == pc[t] = "sent" /\ pc'[t] = "done" /\ call[t].op \in Methods
ExchangeAnswered(t) == pc[t] = "sent" /\ pc'[t] = "done" /\ call[t].op = "authenticate"

GetRequest(session, m) ==
  [ method |-> "GET",
    url |-> session.api_server \o <<"/", "v1", "/">> \o url_suffix(m),
    authorization |-> <<"Bearer ", session.access_token>> ]

(* s is raw without its trailing slashes. *)
StripsTo(raw, s) ==
  /\ Len(s) <= Len(raw)
  /\ SubSeq(raw, 1, Len(s)) = s
  /\ \A i \in (Len(s) + 1)..Len(raw) : raw[i] = "/"
  /\ (Len(s) = 0 \/ s[Len(s)] # "/")

(* Every field of session s comes from the one exchange x. *)
FromExchange(s, x) ==
  /\ s.refresh_token = x.body.refresh_token
  /\ s.access_token = x.body.access_token
  /\ s.expires_at = x.at + x.body.expires_in
  /\ StripsTo(x.body.api_server, s.api_server)
  /\ s.is_demo = (x.url = PracticeUrl)

(* C1: with an empty session slot, every endpoint method returns
   NotAuthenticated(401) in the step of the call itself; that step puts no
   request on the wire and the invocation has sent none when it ends. *)
C1_NoSessionFailsLocally ==
  [][\A t \in Tasks : Calls(t) => \A m \in Methods :
       (auth_info = None /\ EndpointCall(t, m)) =>
         /\ pc'[t] = "done"
         /\ result'[t] = NotAuthenticatedError(401)
         /\ req' = req
         /\ sent'[t] = 0]_vars

C1_Witness ==
  \E t \in Tasks :
    /\ auth_info = None
    /\ pc[t] = "done"
    /\ result[t] = NotAuthenticatedError(401)
    /\ sent[t] = 0
    /\ req[t] = NoReq

(* C2 as stated: an answered endpoint call gives NotAuthenticated(status) on
   401 and 403 and fails, never with NotAuthenticated, on every other
   status outside 200..299. *)
C2_AsStated ==
  [][\A t \in Tasks : EndpointAnswered(t) => \A resp \in EndpointResponses :
       (EndpointRespond(t, resp) /\ resp.transport = "ok") =>
         /\ resp.status \in {401, 403} => result'[t] = NotAuthenticatedError(resp.status)
         /\ (resp.status \notin 200..299 /\ resp.status \notin {401, 403}) =>
              (result'[t].tag = "Err" /\ result'[t].kind # "NotAuthenticated")]_vars

(* C2 amended: 401 and 403 give NotAuthenticated(status); any other 4xx or
   5xx status gives the status error of the transport unchanged; a failure
   without a status gives that transport error; none of the latter two is
   NotAuthenticated.  (Statuses below 400 pass the status check.) *)
C2_StatusClassification ==
  [][\A t \in Tasks : EndpointAnswered(t) => \A resp \in EndpointResponses :
       EndpointRespond(t, resp) =>
         /\ (resp.transport = "ok" /\ resp.status \in {401, 403}) =>
              result'[t] = NotAuthenticatedError(resp.status)
         /\ (resp.transport = "ok" /\ resp.status \in 400..599 /\ resp.status \notin {401, 403}) =>
              result'[t] = ReqwestError("status", resp.status)
         /\ resp.transport # "ok" => result'[t] = ReqwestError(resp.transport, 0)]_vars

C2_Witness ==
  \E t \in Tasks :
    /\ pc[t] = "done"
    /\ sent[t] = 1
    /\ result[t] = NotAuthenticatedError(403)

(* C3 as stated: the slot is empty or holds a session all of whose fields
   come from one token exchange. *)
C3_AsStated ==
  auth_info = None \/ (origin # NoExchange /\ FromExchange(auth_info, origin))

(* C3 amended: the slot is empty, or holds the session given to
   with_authentication untouched, or holds a session whose five fields all
   come from the one exchange that installed it; the slot changes only when
   an exchange installs its session. *)
C3_SessionFromOneExchange ==
  /\ [](\/ auth_info = None
        \/ (origin = NoExchange /\ auth_info \in SuppliedSessions)
        \/ (origin # NoExchange /\ FromExchange(auth_info, origin)))
  /\ [][origin' = origin => auth_info' = auth_info]_vars

C3_Witness ==
  /\ origin # NoExchange
  /\ origin.body.refresh_token = "r3"
  /\ FromExchange(auth_info, origin)
  /\ ncalls >= 2
  /\ \E t \in Tasks : pc[t] = "sent"

(* C4: the GET request an endpoint call sends carries the api_server and
   the access token of the session that is in the slot at the step of the
   call, and a request in flight is not changed by any later step, a
   session replacement included. *)
C4_RequestFromOneSnapshot ==
  [][\A t \in Tasks :
       /\ Calls(t) => \A m \in Methods :
            (EndpointCall(t, m) /\ pc'[t] = "sent") => req'[t] = GetRequest(auth_info, m)
       /\ (pc[t] = "sent" /\ pc'[t] = "sent") => req'[t] = req[t]]_vars

C4_Witness ==
  \E t \in Tasks :
    /\ pc[t] = "sent"
    /\ req[t].method = "GET"
    /\ origin # NoExchange
    /\ req[t].authorization # <<"Bearer ", auth_info.access_token>>

(* C5: no step of an endpoint call, whatever its outcome, changes the
   session slot. *)
C5_EndpointLeavesSlot ==
  [][\A t \in Tasks :
       (\/ Calls(t) /\ \E m \in Methods : EndpointCall(t, m)
        \/ EndpointAnswered(t) /\ \E resp \in EndpointResponses : EndpointRespond(t, resp)) =>
         auth_info' = auth_info]_vars

C5_Witness ==
  \E t \in Tasks :
    /\ pc[t] = "done"
    /\ result[t] = NotAuthenticatedError(401)
    /\ sent[t] = 1
    /\ auth_info # None

(* C6: a token-exchange request goes on the wire only in the first step of
   an authenticate call. *)
C6_ExchangeOnlyOnAuthenticate ==
  [][\A t \in Tasks :
       (req'[t] # req[t] /\ req'[t] # NoReq /\
          (req'[t].method = "POST" \/ req'[t].url \in {PracticeUrl, LiveUrl})) =>
         \E rt \in RefreshTokens, d \in BOOLEAN : AuthenticateCall(t, rt, d)]_vars

C6_Witness ==
  \E t \in Tasks :
    /\ pc[t] = "done"
    /\ result[t] = NotAuthenticatedError(403)
    /\ auth_info # None
    /\ auth_info.expires_at < now
    /\ \A u \in Tasks : req[u] = NoReq

(* C7: an endpoint call on a client that holds a session sends its request
   whatever the session's expires_at, and the answer alone decides the
   result: NotAuthenticated exactly on 401 and 403, success on a decodable
   200. *)
C7_GateIgnoresExpiry ==
  [][\A t \in Tasks :
       /\ Calls(t) => \A m \in Methods :
            (EndpointCall(t, m) /\ auth_info # None) =>
              (pc'[t] = "sent" /\ sent'[t] = 1 /\ req'[t] = GetRequest(auth_info, m))
       /\ EndpointAnswered(t) => \A resp \in EndpointResponses :
            EndpointRespond(t, resp) =>
              /\ result'[t].kind = "NotAuthenticated" <=>
                   (resp.transport = "ok" /\ resp.status \in {401, 403})
              /\ (resp.transport = "ok" /\ resp.status = 200 /\ resp.body = Envelope) =>
                   result'[t] = Ok("value")]_vars

C7_Witness ==
  \E t \in Tasks :
    /\ pc[t] = "sent"
    /\ req[t].method = "GET"
    /\ auth_info # None
    /\ auth_info.expires_at < now
    /\ req[t].authorization = <<"Bearer ", auth_info.access_token>>

(* C8: an invocation sends at most one request, has exactly one result when
   it is done and none before, and once done it sends nothing more. *)
C8_NoRetry ==
  /\ [](\A t \in Tasks :
          /\ sent[t] <= 1
          /\ pc[t] = "done" => (result[t] # NoResult /\ req[t] = NoReq)
          /\ pc[t] # "done" => result[t] = NoResult)
  /\ [][\A t \in Tasks :
          /\ pc[t] = "done" => (pc'[t] = "done" /\ result'[t] = result[t] /\ sent'[t] = sent[t])
          /\ pc[t] = "sent" => pc'[t] \in {"sent", "done"}]_vars

C8_Witness ==
  \E t \in Tasks :
    /\ pc[t] = "done"
    /\ result[t] = ReqwestError("decode", 0)
    /\ sent[t] = 1

(* C9 as stated: a token exchange answered with a status outside 200..299
   fails, and not with NotAuthenticated. *)
C9_AsStated ==
  [][\A t \in Tasks : ExchangeAnswered(t) => \A resp \in TokenResponses :
       (AuthenticateRespond(t, resp) /\ resp.transport = "ok" /\ resp.status \notin 200..299) =>
         (result'[t].tag = "Err" /\ result'[t].kind # "NotAuthenticated")]_vars

(* C9 amended: a token exchange answered with a 4xx or 5xx status, 401 and
   403 included, fails with the status error of the transport, never with
   NotAuthenticated, and leaves the slot alone. *)
C9_ExchangeStatusNotReclassified ==
  [][\A t \in Tasks : ExchangeAnswered(t) => \A resp \in TokenResponses :
       (AuthenticateRespond(t, resp) /\ resp.transport = "ok" /\ resp.status \in 400..599) =>
         /\ result'[t] = ReqwestError("status", resp.status)
         /\ auth_info' = auth_info]_vars

C9_Witness ==
  \E t \in Tasks :
    /\ pc[t] = "done"
    /\ result[t] = ReqwestError("status", 401)

(* C10: a token exchange goes to the practice URL when is_demo is true and
   to the live URL when it is false, to no other URL, and the session an
   exchange installs records the is_demo of the URL that answered. *)
C10_ExchangeUrlMatchesDemo ==
  /\ [][\A t \in Tasks : Calls(t) => \A rt \in RefreshTokens, d \in BOOLEAN :
          AuthenticateCall(t, rt, d) =>
            req'[t].url = (IF d THEN PracticeUrl ELSE LiveUrl)]_vars
  /\ [](\A t \in Tasks :
          (req[t] # NoReq /\ req[t].method = "POST") => req[t].url \in {PracticeUrl, LiveUrl})
  /\ [](origin # NoExchange =>
          /\ origin.url \in {PracticeUrl, LiveUrl}
          /\ auth_info.is_demo = (origin.url = PracticeUrl))

C10_Witness ==
  /\ origin # NoExchange
  /\ origin.url = PracticeUrl
  /\ auth_info.is_demo = TRUE
  /\ \E t \in Tasks : req[t] # NoReq /\ req[t].url = LiveUrl

(* C11: refresh(session) sends the request authenticate sends for the
   refresh token held in the session and the session's is_demo: a caller
   passing those two to authenticate puts the same request on the wire.  In
   a session installed by an exchange that token is the one the exchange
   returned and the URL is the one that exchange went to. *)
C11_RefreshUsesSessionToken ==
  /\ [][\A t \in Tasks : Calls(t) => \A rt \in RefreshTokens, d \in BOOLEAN :
          (/\ AuthenticateCall(t, rt, d)
           /\ auth_info # None
           /\ rt = auth_info.refresh_token
           /\ d = auth_info.is_demo) => req'[t] = refresh(auth_info)]_vars
  /\ [](origin # NoExchange =>
          /\ refresh(auth_info).method = "POST"
          /\ refresh(auth_info).url = origin.url
          /\ refresh(auth_info).query =
               << <<"grant_type", "refresh_token">>,
                  <<"refresh_token", origin.body.refresh_token>> >>)

C11_Witness ==
  /\ origin # NoExchange
  /\ origin.body.refresh_token = "r1"
  /\ origin.url = PracticeUrl
  /\ \E t \in Tasks :
       /\ pc[t] = "sent"
       /\ call[t].op = "authenticate"
       /\ req[t] = refresh(auth_info)

(* C12: the api_server of a session installed by an exchange is the
   api_server of the answer without its trailing slashes, whether the answer
   carried none, one or several. *)
C12_ApiServerStripped ==
  origin # NoExchange =>
    /\ StripsTo(origin.body.api_server, auth_info.api_server)
    /\ auth_info.api_server = trim_end_matches(origin.body.api_server)

C12_WitnessNone ==
  origin # NoExchange /\ origin.body.api_server = <<"s">> /\ auth_info.api_server = <<"s">>

C12_WitnessOne ==
  origin # NoExchange /\ origin.body.api_server = <<"s", "/">> /\ auth_info.api_server = <<"s">>

C12_Witness ==
  origin # NoExchange /\ origin.body.api_server = <<"q", "/", "/">> /\ auth_info.api_server = <<"q">>

(* C15 as stated: an answered endpoint call is successful only if its
   request was sent, the status was 2xx and the body decoded. *)
C15_AsStated ==
  [][\A t \in Tasks : EndpointAnswered(t) => \A resp \in EndpointResponses :
       (EndpointRespond(t, resp) /\ result'[t].tag = "Ok") =>
         /\ sent[t] = 1
         /\ resp.transport = "ok"
         /\ resp.status \in 200..299
         /\ resp.body = Envelope]_vars

(* C15: an endpoint call is successful exactly when its request was sent,
   the transport delivered an answer, the status is not 4xx or 5xx and the
   body decoded into the envelope; a call that sends nothing fails, and every
   transport failure, 4xx/5xx status (404 on account_order included) and
   undecodable body comes back as an error. *)
C15_NoErrorBecomesSuccess ==
  /\ [][\A t \in Tasks : EndpointAnswered(t) => \A resp \in EndpointResponses :
          EndpointRespond(t, resp) =>
            /\ sent[t] = 1
            /\ result'[t].tag = "Ok" <=>
                 (/\ resp.transport = "ok"
                  /\ resp.status \notin 400..599
                  /\ resp.body = Envelope)
            /\ result'[t].tag # "Ok" =>
                 /\ result'[t].tag = "Err"
                 /\ result'[t].kind \in
                      {"NotAuthenticated", "status", "decode", "connect", "timeout"}
            /\ (call[t].op = "account_order" /\ resp.transport = "ok" /\ resp.status = 404) =>
                 result'[t] = ReqwestError("status", 404)]_vars
  /\ [][\A t \in Tasks : Calls(t) => \A m \in Methods :
          EndpointCall(t, m) => (sent'[t] = 0 => result'[t].tag = "Err")]_vars
  /\ [](\A t \in Tasks : result[t] \in {Ok("value"), Ok("unit")} => sent[t] = 1)

C15_Witness ==
  \E t \in Tasks :
    /\ pc[t] = "done"
    /\ sent[t] = 1
    /\ result[t] = ReqwestError("status", 404)
    /\ \E u \in Tasks : pc[u] = "done" /\ sent[u] = 1 /\ result[u].tag = "Ok"

(* C13 as stated: for every capture instant and every u64 expires_in, the
   exchange does not abort and expires_at is the instant plus expires_in. *)
C13_AsStated ==
  (probe.fn = "expires_at" /\ ~probe.pending) =>
    /\ ~probe.out.panic
    /\ probe.out.val \o <<0>> = WideSum(probe.instant, probe.expires_in)

(* Where the sum fits an i64 the exchange does not abort and expires_at is
   the sum; elsewhere it panics. *)
C13_PanicsExactlyOnOverflow ==
  (probe.fn = "expires_at" /\ ~probe.pending) =>
    LET w == WideSum(probe.instant, probe.expires_in) IN
    IF w[5] = 0 /\ w[4] < 32768
    THEN ~probe.out.panic /\ probe.out.val \o <<0>> = w
    ELSE probe.out.panic

C13_Overflow ==
  /\ probe.fn = "expires_at"
  /\ ~probe.pending
  /\ probe.expires_in = U64_MAX
  /\ probe.out.panic

(* C14 as stated: account_order returns the first element of a non-empty
   orders array and an absent result, without error, for an empty one. *)
C14_AsStated ==
  (probe.fn = "account_order" /\ ~probe.pending) =>
    /\ probe.out.tag = "Ok"
    /\ Len(probe.orders) = 0 => ~probe.out.val.some
    /\ Len(probe.orders) > 0 =>
         (probe.out.val.some /\ probe.out.val.id = probe.orders[1])

(* What account_order returns: the last element. *)
C14_ReturnsLast ==
  (probe.fn = "account_order" /\ ~probe.pending) =>
    /\ probe.out.tag = "Ok"
    /\ Len(probe.orders) = 0 => ~probe.out.val.some
    /\ Len(probe.orders) > 0 =>
         (probe.out.val.some /\ probe.out.val.id = probe.orders[Len(probe.orders)])

C14_LastNotFirst ==
  /\ probe.fn = "account_order"
  /\ ~probe.pending
  /\ probe.orders = <<1, 2>>
  /\ probe.out.val = [some |-> TRUE, id |-> 2]

(* A decode probe, a round-trip probe, has been applied. *)
Decoded == probe.fn = "decode" /\ ~probe.pending
RoundTripped == probe.fn = "round_trip" /\ ~probe.pending

(* C16 as stated: a body that fails to decode fails the call with
   MissingField when the field is absent and with InvalidType when it is
   present but not convertible. *)
C16_AsStated ==
  (Decoded /\ ~probe.out.ok) =>
    /\ probe.json = JAbsent =>
         probe.out.err.kind = MissingFieldError(probe.field).kind
    /\ probe.json # JAbsent =>
         probe.out.err.kind = InvalidTypeError(probe.field, type_of(probe.field)).kind

(* What the call returns: the decode error of reqwest, whatever the cause. *)
C16_DecodeFailureIsReqwestError ==
  Decoded =>
    /\ ~probe.out.ok <=> probe.out.err = ReqwestError("decode", 0)
    /\ probe.out.err.kind \notin {"MissingField", "InvalidType"}

C16_MissingFieldAsReqwestError ==
  /\ Decoded
  /\ probe.field = "AccountOrder.totalQuantity"
  /\ probe.json = JAbsent
  /\ probe.out.cause = "missing field"
  /\ probe.out.err = ReqwestError("decode", 0)

(* C17 as stated: delay decodes 0 to false and 1 to true, and every other
   integer fails the decode with InvalidType. *)
C17_AsStated ==
  (Decoded /\ probe.field = "MarketQuote.delay" /\ probe.json.t = "num") =>
    CASE probe.json.n = 0 -> probe.out.ok /\ probe.out.val = RBool(FALSE)
      [] probe.json.n = 1 -> probe.out.ok /\ probe.out.val = RBool(TRUE)
      [] OTHER -> /\ ~probe.out.ok
                  /\ probe.out.err.kind = InvalidTypeError(probe.field, "bool").kind

(* The mapping without the error type: 0 and 1 decode, nothing is clamped,
   every other integer fails the decode. *)
C17_DelayMapping ==
  (Decoded /\ probe.field = "MarketQuote.delay" /\ probe.json.t = "num") =>
    CASE probe.json.n = 0 -> probe.out.ok /\ probe.out.val = RBool(FALSE)
      [] probe.json.n = 1 -> probe.out.ok /\ probe.out.val = RBool(TRUE)
      [] OTHER -> ~probe.out.ok /\ probe.out.err = ReqwestError("decode", 0)

C17_TwoFailsAsReqwestError ==
  /\ Decoded
  /\ probe.field = "MarketQuote.delay"
  /\ probe.json = JNum(2)
  /\ ~probe.out.ok
  /\ probe.out.err = ReqwestError("decode", 0)

(* C18 as stated: encoding a field value and decoding the JSON gives the
   value back, for every field and every value of its type. *)
C18_AsStated ==
  RoundTripped => (probe.out.ok /\ probe.out.val = probe.value)

(* The fields that do round-trip: those with the derived Deserialize, and
   the nullable numbers. *)
C18_DerivedFieldsRoundTrip ==
  (RoundTripped /\ deserialize_with(probe.field) \in {"derived", "deserialize_nullable_number"}) =>
    (probe.out.ok /\ probe.out.val = probe.value)

C18_DelayDoesNotDecode ==
  /\ RoundTripped
  /\ probe.field = "MarketQuote.delay"
  /\ probe.value = RBool(FALSE)
  /\ ~probe.out.ok

C18_EmptyStringLost ==
  /\ RoundTripped
  /\ probe.field = "AccountOrder.notes"
  /\ probe.value = RSome("")
  /\ probe.out.ok
  /\ probe.out.val = RNone

(* C19: in openQuantity, filledQuantity, canceledQuantity, comissionCharged
   and placementCommission null decodes to the number 0 and a number to
   itself; in totalQuantity a number decodes to itself and null fails the
   decode. *)
C19_NullableNumbers ==
  Decoded =>
    /\ probe.field \in { "AccountOrder.openQuantity", "AccountOrder.filledQuantity",
                         "AccountOrder.canceledQuantity", "AccountOrder.comissionCharged",
                         "AccountOrder.placementCommission" } =>
         /\ probe.json = JNull => (probe.out.ok /\ probe.out.val = RNum(0))
         /\ probe.json.t = "num" => (probe.out.ok /\ probe.out.val = RNum(probe.json.n))
    /\ probe.field = "AccountOrder.totalQuantity" =>
         /\ probe.json = JNull =>
              (~probe.out.ok /\ probe.out.err = ReqwestError("decode", 0))
         /\ probe.json.t = "num" => (probe.out.ok /\ probe.out.val = RNum(probe.json.n))

C19_Witness ==
  /\ Decoded
  /\ probe.field = "AccountOrder.comissionCharged"
  /\ probe.json = JNull
  /\ probe.out.ok
  /\ probe.out.val = RNum(0)

C19_WitnessTotalQuantity ==
  /\ Decoded
  /\ probe.field = "AccountOrder.totalQuantity"
  /\ probe.json = JNull
  /\ ~probe.out.ok

(* C20: in the six fields under the empty-as-absent convention "" decodes to
   None and a non-empty string s to Some(s); in primaryRoute, orderRoute and
   exchangeOrderId every string, "" included, decodes to itself. *)
C20_EmptyStringAsNone ==
  (Decoded /\ probe.json.t = "str") =>
    /\ probe.field \in { "AccountOrder.clientReasonStr", "AccountOrder.notes",
                         "AccountOrder.secondaryRoute", "AccountOrder.venueHoldingOrder",
                         "AccountExecution.notes", "MarketQuote.tier" } =>
         /\ probe.out.ok
         /\ probe.out.val = (IF probe.json.s = "" THEN RNone ELSE RSome(probe.json.s))
    /\ probe.field \in { "AccountOrder.primaryRoute", "AccountOrder.orderRoute",
                         "AccountOrder.exchangeOrderId" } =>
         /\ probe.out.ok
         /\ probe.out.val = RStr(probe.json.s)

C20_Witness ==
  /\ Decoded
  /\ probe.field = "MarketQuote.tier"
  /\ probe.json = JStr("")
  /\ probe.out.ok
  /\ probe.out.val = RNone

C20_WitnessLiteral ==
  /\ Decoded
  /\ probe.field = "AccountOrder.primaryRoute"
  /\ probe.json = JStr("")
  /\ probe.out.val = RStr("")

C20_WitnessPresent ==
  /\ Decoded
  /\ probe.field = "AccountOrder.venueHoldingOrder"
  /\ probe.json = JStr("AUTO")
  /\ probe.out.val = RSome("AUTO")

(* C21: a field of a closed enumeration decodes exactly the names serde
   declares for its variants, each to its own variant; every other value
   (another string, a number, a boolean, null, a missing key) fails the
   decode and the call returns the decode error. *)
C21_ClosedEnumerations ==
  (Decoded /\ probe.field \in
     { "Account.type", "Account.status", "Account.clientAccountType",
       "AccountOrder.side", "AccountOrder.orderType", "AccountOrder.timeInForce",
       "AccountOrder.state", "AccountExecution.side", "AccountBalance.currency",
       "MarketQuote.lastTradeTick", "SearchEquitySymbol.securityType",
       "SearchEquitySymbol.listingExchange", "SearchEquitySymbol.currency" }) =>
    IF probe.json.t = "str" /\ probe.json.s \in variants(type_of(probe.field))
    THEN probe.out.ok /\ probe.out.val = RVariant(probe.json.s)
    ELSE ~probe.out.ok /\ probe.out.err = ReqwestError("decode", 0)

C21_Witness ==
  /\ Decoded
  /\ probe.field = "AccountBalance.currency"
  /\ probe.json = JStr("EUR")
  /\ ~probe.out.ok
  /\ probe.out.cause = "unknown variant"
  /\ probe.out.err = ReqwestError("decode", 0)

C21_WitnessRenamed ==
  /\ Decoded
  /\ probe.field = "AccountOrder.side"
  /\ probe.json = JStr("Cover")
  /\ ~probe.out.ok

(* C22: the request an endpoint call puts on the wire is a GET; its URL
   starts with the api_server of the session in the slot, continues with
   "/", "v1", "/" and ends with the path of the method; its Authorization
   header is "Bearer " and that session's access token.  A call that finds
   no session sends nothing, and every endpoint request in flight has the
   header. *)
C22_RequestShape ==
  /\ [][\A t \in Tasks : Calls(t) => \A m \in Methods :
          EndpointCall(t, m) =>
            IF auth_info = None
            THEN sent'[t] = 0 /\ req'[t] = NoReq
            ELSE LET r == req'[t]
                     n == Len(auth_info.api_server) IN
                 /\ sent'[t] = 1
                 /\ r.method = "GET"
                 /\ SubSeq(r.url, 1, n) = auth_info.api_server
                 /\ SubSeq(r.url, n + 1, n + 3) = <<"/", "v1", "/">>
                 /\ SubSeq(r.url, n + 4, Len(r.url)) = url_suffix(m)
                 /\ r.authorization = <<"Bearer ", auth_info.access_token>>]_vars
  /\ [](\A t \in Tasks :
          (pc[t] = "sent" /\ call[t].op \in Methods) =>
            /\ req[t].method = "GET"
            /\ "authorization" \in DOMAIN req[t]
            /\ req[t].authorization[1] = "Bearer "
            /\ \E m \in Methods :
                 /\ Len(req[t].url) >= Len(url_suffix(m)) + 3
                 /\ SubSeq(req[t].url, Len(req[t].url) - Len(url_suffix(m)) - 2,
                           Len(req[t].url))
                      = <<"/", "v1", "/">> \o url_suffix(m))

C22_Witness ==
  \E t \in Tasks :
    /\ pc[t] = "sent"
    /\ auth_info # None
    /\ auth_info.access_token = "a1"
    /\ req[t] = [ method |-> "GET",
                  url |-> <<"s", "/", "v1", "/", "time">>,
                  authorization |-> <<"Bearer ", "a1">> ]

(* The values the query q carries under key k, and how often k occurs. *)
ValuesAt(q, k) == { q[i][2] : i \in { j \in 1..Len(q) : q[j][1] = k } }
Occurrences(q, k) == Cardinality({ j \in 1..Len(q) : q[j][1] = k })

(* C23: the query of account_orders carries stateFilter exactly when a
   filter is given, with the literal "All", "Open" or "Closed" of the
   variant; startTime and endTime exactly when the argument is given; no
   key twice and no other key; nothing at all when all three are absent. *)
C23_OrdersQuery ==
  (probe.fn = "account_orders_query" /\ ~probe.pending) =>
    LET q == probe.out IN
    /\ Occurrences(q, "stateFilter") = (IF probe.state.some THEN 1 ELSE 0)
    /\ Occurrences(q, "startTime") = (IF probe.start_time.some THEN 1 ELSE 0)
    /\ Occurrences(q, "endTime") = (IF probe.end_time.some THEN 1 ELSE 0)
    /\ \A i \in 1..Len(q) : q[i][1] \in {"startTime", "endTime", "stateFilter"}
    /\ probe.state = Present("OrderStateFilter::All") => ValuesAt(q, "stateFilter") = {<<"All">>}
    /\ probe.state = Present("OrderStateFilter::Open") => ValuesAt(q, "stateFilter") = {<<"Open">>}
    /\ probe.state = Present("OrderStateFilter::Closed") =>
         ValuesAt(q, "stateFilter") = {<<"Closed">>}
    /\ probe.start_time.some => ValuesAt(q, "startTime") = {to_rfc3339(probe.start_time.v)}
    /\ probe.end_time.some => ValuesAt(q, "endTime") = {to_rfc3339(probe.end_time.v)}
    /\ (~probe.state.some /\ ~probe.start_time.some /\ ~probe.end_time.some) => q = <<>>

C23_Witness ==
  /\ probe.fn = "account_orders_query"
  /\ ~probe.pending
  /\ probe.start_time = Absent(0)
  /\ probe.end_time = Present(1)
  /\ probe.state = Present("OrderStateFilter::Closed")
  /\ probe.out = << <<"endTime", to_rfc3339(1)>>, <<"stateFilter", <<"Closed">> >> >>

C23_WitnessNoQuery ==
  /\ probe.fn = "account_orders_query"
  /\ ~probe.pending
  /\ ~probe.state.some /\ ~probe.start_time.some /\ ~probe.end_time.some
  /\ probe.out = <<>>

(* C24 as stated: an answer whose status is not 2xx is never decoded: it
   gives NotAuthenticated on 401 and 403 and the status error otherwise,
   whatever its body; a decode error comes from a 2xx answer only. *)
C24_AsStated ==
  [][\A t \in Tasks : EndpointAnswered(t) => \A resp \in EndpointResponses :
       (EndpointRespond(t, resp) /\ resp.transport = "ok") =>
         /\ resp.status \notin 200..299 =>
              result'[t] = (IF resp.status \in {401, 403}
                            THEN NotAuthenticatedError(resp.status)
                            ELSE ReqwestError("status", resp.status))
         /\ result'[t].kind = "decode" => resp.status \in 200..299]_vars

(* C24: the gate comes first (a call that finds no session returns without
   building or sending), the request is built and sent in the same step,
   and the answer is checked for its status before its body is looked at:
   a 4xx or 5xx answer gives NotAuthenticated (401, 403) or the status
   error whether or not its body would decode; a decode error and a
   success arise only from an answer whose status is not 4xx or 5xx. *)
C24_StepOrder ==
  /\ [][\A t \in Tasks : Calls(t) => \A m \in Methods :
          EndpointCall(t, m) =>
            IF auth_info = None
            THEN pc'[t] = "done" /\ req'[t] = NoReq /\ sent'[t] = 0
            ELSE pc'[t] = "sent" /\ req'[t] # NoReq /\ sent'[t] = 1
                 /\ result'[t] = NoResult]_vars
  /\ [][\A t \in Tasks : EndpointAnswered(t) => \A resp \in EndpointResponses :
          (EndpointRespond(t, resp) /\ resp.transport = "ok") =>
            /\ resp.status \in 400..599 =>
                 /\ result'[t].kind \in {"NotAuthenticated", "status"}
                 /\ result'[t].status = resp.status
                 /\ result'[t].kind = "NotAuthenticated" <=> resp.status \in {401, 403}
            /\ result'[t].kind = "decode" =>
                 (resp.status \notin 400..599 /\ resp.body = Garbage)
            /\ result'[t].tag = "Ok" =>
                 (resp.status \notin 400..599 /\ resp.body = Envelope)]_vars
  /\ [](\A t \in Tasks :
          result[t].kind \in {"status", "decode", "connect", "timeout"} => sent[t] = 1)

C24_Witness ==
  \E t \in Tasks :
    /\ pc[t] = "done"
    /\ sent[t] = 1
    /\ result[t] = ReqwestError("status", 500)
    /\ \E u \in Tasks : pc[u] = "done" /\ result[u] = ReqwestError("decode", 0)

(* C25: an authenticate call that fails leaves the slot as it was, held
   session or empty: so does its first step, and so does its return for a
   transport failure, a 4xx or 5xx status and an undecodable body, which all
   fail. *)
C25_FailedExchangeLeavesSlot ==
  /\ [][\A t \in Tasks : ExchangeAnswered(t) => \A resp \in TokenResponses :
          AuthenticateRespond(t, resp) =>
            /\ result'[t].tag = "Err" => auth_info' = auth_info
            /\ (\/ resp.transport # "ok"
                \/ resp.status \in 400..599
                \/ resp.body = Garbage) =>
                 (result'[t].tag = "Err" /\ auth_info' = auth_info)]_vars
  /\ [][\A t \in Tasks : Calls(t) => \A rt \in RefreshTokens, d \in BOOLEAN :
          AuthenticateCall(t, rt, d) => auth_info' = auth_info]_vars

C25_Witness ==
  \E t \in Tasks :
    /\ pc[t] = "done"
    /\ result[t] = ReqwestError("status", 403)
    /\ origin # NoExchange
    /\ FromExchange(auth_info, origin)

C25_WitnessEmpty ==
  \E t \in Tasks :
    /\ pc[t] = "done"
    /\ result[t] = ReqwestError("status", 500)
    /\ sent[t] = 1
    /\ auth_info = None

(* C26 as stated: the api_server of a held session never ends with a
   slash, however the session was installed, and the URL of every endpoint
   request has exactly one slash between the server and the version. *)
C26_AsStated ==
  /\ auth_info # None =>
       (Len(auth_info.api_server) = 0
          \/ auth_info.api_server[Len(auth_info.api_server)] # "/")
  /\ \A t \in Tasks :
       (pc[t] = "sent" /\ call[t].op \in Methods) =>
         \A i \in 1..(Len(req[t].url) - 2) :
           (req[t].url[i + 1] = "/" /\ req[t].url[i + 2] = "v1") => req[t].url[i] # "/"

(* A session given to with_authentication with a trailing slash is held as
   given, and the endpoint URL built from it has two slashes before "v1". *)
C26_DoubleSlash ==
  \E t \in Tasks :
    /\ origin = NoExchange
    /\ auth_info # None
    /\ auth_info.api_server = <<"m", "/">>
    /\ pc[t] = "sent"
    /\ req[t].url = <<"m", "/", "/", "v1", "/", "accounts">>

(* A session with its five fields, all of them from the exchange x. *)
FullyPopulated(s, x) ==
  /\ DOMAIN s = {"refresh_token", "access_token", "expires_at", "api_server", "is_demo"}
  /\ x # NoExchange
  /\ FromExchange(s, x)

(* C27: once the slot holds a session no step empties it, whichever
   operation takes the step and however it ends; a step that changes a held
   session is the successful return of an authenticate call and puts a
   session with all five fields in its place. *)
C27_PresenceMonotonic ==
  [][auth_info # None =>
       /\ auth_info' # None
       /\ auth_info' # auth_info =>
            /\ FullyPopulated(auth_info', origin')
            /\ \E t \in Tasks :
                 /\ ExchangeAnswered(t)
                 /\ result'[t] = Ok("unit")]_vars

C27_Witness ==
  /\ origin # NoExchange
  /\ auth_info # None
  /\ \E t, u \in Tasks :
       /\ t # u
       /\ pc[t] = "done" /\ result[t] = Ok("unit")
       /\ pc[u] = "done" /\ result[u].tag = "Err" /\ sent[u] = 1

(* C28: at every suspension point, that is in every state, the slot is
   unborrowed, whatever calls are in flight; hence every borrow and every
   replace of a later step succeeds, no call ends in a borrow panic, and a
   step that reads or replaces the slot leaves it unborrowed. *)
C28_NoBorrowAcrossSuspension ==
  /\ [](borrow = 0)
  /\ [](try_borrow(borrow) /\ try_borrow_mut(borrow))
  /\ [](\A t \in Tasks : result[t].tag # "Panic")
  /\ [][\A t \in Tasks : (Calls(t) \/ (pc[t] = "sent" /\ pc'[t] = "done")) =>
          (borrow' = 0 /\ result'[t].tag # "Panic")]_vars

C28_Witness ==
  \E t, u \in Tasks :
    /\ t < u
    /\ pc[t] = "sent"
    /\ call[t].op = "authenticate"
    /\ pc[u] = "done"
    /\ result[u] \in {Ok("Some"), Ok("None")}
    /\ borrow = 0

C28_WitnessReplaceWhileInFlight ==
  \E t, u \in Tasks :
    /\ t < u
    /\ pc[t] = "sent"
    /\ call[t].op \in Methods
    /\ pc[u] = "done"
    /\ result[u] = Ok("unit")
    /\ req[t].authorization # <<"Bearer ", auth_info.access_token>>

(* C29: a successful authenticate installs, in the step of its return, the
   session made from its own response alone, whatever the slot held and
   whichever call started first; nothing but such a step changes the slot, so
   once every call has finished the slot holds the session of the exchange
   that completed last and nothing of an earlier one. *)
C29_LastCompletionWins ==
  /\ [][\A t \in Tasks : (ExchangeAnswered(t) /\ result'[t] = Ok("unit")) =>
          \E resp \in TokenResponses :
            LET r == refresh_access_token(resp, call[t].is_demo, now) IN
            /\ r.ok
            /\ auth_info' = r.val
            /\ origin' = [body |-> resp.body, url |-> req[t].url, at |-> now]
            /\ FromExchange(auth_info', origin')]_vars
  /\ [][auth_info' # auth_info =>
          \E t \in Tasks : ExchangeAnswered(t) /\ result'[t] = Ok("unit")]_vars
  /\ []((\A t \in Tasks : result[t] = Ok("unit")) =>
          (origin # NoExchange /\ FromExchange(auth_info, origin)))

(* The call started second has completed first and its session is in the
   slot, while the call started first is still waiting for its answer. *)
C29_Witness ==
  \E t, u \in Tasks :
    /\ t < u
    /\ pc[t] = "sent"
    /\ call[t].op = "authenticate"
    /\ call[t].is_demo
    /\ result[u] = Ok("unit")
    /\ auth_info # None
    /\ ~auth_info.is_demo
    /\ origin # NoExchange

(* Both calls succeeded and the slot holds the session of the practice
   exchange although a live exchange succeeded as well. *)
C29_WitnessAllFinished ==
  /\ \A t \in Tasks : result[t] = Ok("unit")
  /\ auth_info # None
  /\ origin # NoExchange
  /\ origin.body.refresh_token = "r3"
  /\ auth_info.access_token = "a3"

(* Task t alone moves: no other task's position, call, request, count of
   requests or result changes, and neither does the slot. *)
OnlyMoves(t) ==
  /\ auth_info' = auth_info
  /\ \A u \in Tasks \ {t} :
        /\ pc'[u] = pc[u]
        /\ call'[u] = call[u]
        /\ req'[u] = req[u]
        /\ sent'[u] = sent[u]
        /\ result'[u] = result[u]

(* C30: an endpoint call is decided by the slot as it is in the step of the
   call (NotAuthenticated when empty, else a request built from it), its
   request in flight is changed by no step of any call, and its result is
   dispatch of the answer to its own request; the steps of an endpoint call,
   failing or not, change nothing of any other call nor the slot, so the
   outcomes are the same in every order of start and completion. *)
C30_OutcomeIndependent ==
  /\ [][\A t \in Tasks :
          (Calls(t) /\ (call'[t].op \in Methods \/ result'[t].kind = "NotAuthenticated")) =>
            /\ OnlyMoves(t)
            /\ IF auth_info = None
               THEN pc'[t] = "done" /\ result'[t] = NotAuthenticatedError(UNAUTHORIZED)
               ELSE /\ pc'[t] = "sent"
                    /\ req'[t] = GetRequest(auth_info, call'[t].op)]_vars
  /\ [][\A t \in Tasks : (pc[t] = "sent" /\ pc'[t] = "sent") =>
          (req'[t] = req[t] /\ call'[t] = call[t])]_vars
  /\ [][\A t \in Tasks : EndpointAnswered(t) =>
          /\ OnlyMoves(t)
          /\ \A resp \in EndpointResponses :
                EndpointRespond(t, resp) => result'[t] = dispatch(resp)]_vars

(* The call started second has failed with the server's 401 while the call
   started first still waits; the slot and the waiting request are intact. *)
C30_Witness ==
  \E t, u \in Tasks :
    /\ t < u
    /\ pc[t] = "sent"
    /\ call[t].op \in Methods
    /\ pc[u] = "done"
    /\ sent[u] = 1
    /\ result[u] = NotAuthenticatedError(UNAUTHORIZED)
    /\ auth_info # None
    /\ req[t] = GetRequest(auth_info, call[t].op)

(* Two calls on one client: one failed NotAuthenticated at the server, the
   other succeeded. *)
C30_WitnessMixedOutcomes ==
  \E t, u \in Tasks :
    /\ t # u
    /\ sent[t] = 1
    /\ result[t] = NotAuthenticatedError(UNAUTHORIZED)
    /\ sent[u] = 1
    /\ result[u] = Ok("value")

====
